---- MODULE Spec2Model ----
(***************************************************************************)
(* Model of rss2email's Feed (src/rss2email/feed.py): one feed's dynamic   *)
(* state (etag, modified, seen, url) and the run state machine             *)
(* run -> _fetch -> _process -> _check_for_errors -> _process_entry ->     *)
(* _send -> record, with the exceptions the statements of the source       *)
(* raise.                                                                  *)
(*                                                                         *)
(* Python values are modelled as follows.  None is the string NoneVal.     *)
(* An optional attribute read with a default (getattr(parsed, 'status',    *)
(* 200)) is a set with at most one element.  A dict is the sequence of its *)
(* <<key, value>> pairs in insertion order, so that iterating it yields    *)
(* its keys and subscripting it with a key it lacks raises KeyError.  A    *)
(* call that can raise returns [err, val]: err = "" is a normal return.    *)
(***************************************************************************)
EXTENDS Integers, Sequences, FiniteSets, TLC

\* Longest entry list of a fetch result.
MaxEntries == 2

NoneVal == "None"

\* HTTP status codes named by _check_for_errors.
HTTP_OK == 200
HTTP_MOVED == 301
HTTP_FOUND == 302
HTTP_NOT_MODIFIED == 304
(***************************************************************************)
(* dicts                                                                   *)
(***************************************************************************)
\* The keys of a dict, in iteration order.
DictKeys(d) == [k \in 1..Len(d) |-> d[k][1]]

HasKey(d, key) == \E k \in 1..Len(d) : d[k][1] = key

\* d[key] for a key the dict has.
DictGet(d, key) == d[CHOOSE k \in 1..Len(d) : d[k][1] = key][2]

\* A feedparser content dict as the data model gives it: {type, value}.
Content(type, value) == << <<"type", type>>, <<"value", value>> >>

\* The dict literal {type: 'text/plain', 'value': ''}: its first key is the
\* builtin `type`, not the string 'type'.
FallbackContent == << <<"<class 'type'>", "text/plain">>, <<"value", "">> >>

(***************************************************************************)
(* Entries of the bounded model.  An entry is a record of the fields the   *)
(* pipeline reads: id (native identifier, NoneVal when the entry carries   *)
(* none), title_detail (present or not), link (NoneVal when absent), tags  *)
(* (has a non-empty term or not), content (list of content dicts) and      *)
(* summary_detail (a content dict, or <<>> when absent).                   *)
(***************************************************************************)
Entry(id, title, link, tags, content) ==
    [id |-> id, title_detail |-> title, link |-> link, tags |-> tags,
     content |-> content, summary_detail |-> <<>>]

\* A complete entry, the same entry with its content changed, a second
\* complete entry without tags, and entries that lack a title_detail, a link
\* or a native identifier.
EntryA == Entry("g1", TRUE, "l1", TRUE, <<Content("text/html", "c1")>>)

EntryA2 == Entry("g1", TRUE, "l1", TRUE, <<Content("text/html", "c2")>>)

EntryB == Entry("g2", TRUE, "l2", FALSE, <<Content("text/plain", "c1")>>)

EntryNoTitle == Entry("g2", FALSE, "l2", TRUE, <<Content("text/html", "c1")>>)

EntryNoLink == Entry("g1", TRUE, NoneVal, TRUE, <<Content("text/html", "c1")>>)

EntryNoId == Entry(NoneVal, TRUE, "l1", TRUE, <<Content("text/html", "c1")>>)

EntryPool == { EntryA, EntryA2, EntryB, EntryNoTitle, EntryNoLink, EntryNoId }

RECURSIVE SeqsUpTo(_, _)
SeqsUpTo(S, n) ==
    IF n = 0 THEN { <<>> }
    ELSE LET shorter == SeqsUpTo(S, n - 1)
         IN  shorter \cup { Append(s, x) : s \in { t \in shorter : Len(t) = n - 1 }, x \in S }

(***************************************************************************)
(* Pure helpers of Feed                                                    *)
(***************************************************************************)
Ok(v) == [err |-> "", val |-> v]

Raise(e) == [err |-> e, val |-> NoneVal]

\* Python truth of a string-or-None value.
Truthy(v) == v # NoneVal /\ v # ""

\* str.strip() on the strings of the model, none of which has outer blanks
\* except the blank string itself.
Strip(s) == IF s = " " THEN "" ELSE s

\* First element of seq that satisfies the type test, as an index, or 0.
RECURSIVE FirstOfType(_, _, _)
FirstOfType(contents, content_type, k) ==
    IF k > Len(contents) THEN 0
    ELSE IF HasKey(contents[k], "type") /\ DictGet(contents[k], "type") = content_type
         THEN k
         ELSE FirstOfType(contents, content_type, k + 1)

\* _get_entry_content as one scan for the first candidate of either type.
GetEntryContentOneScan(entry, html) ==
    LET contents == IF entry.summary_detail # <<>>
                    THEN Append(entry.content, entry.summary_detail)
                    ELSE entry.content
        either == { k \in 1..Len(contents) :
                      /\ HasKey(contents[k], "type")
                      /\ DictGet(contents[k], "type") \in {"text/html", "text/plain"} }
    IN  IF either # {}
        THEN contents[CHOOSE k \in either : \A j \in either : k <= j]
        ELSE IF contents # <<>> THEN contents[1]
        ELSE FallbackContent

\* Feed._get_entry_content: first choice, then second choice, then the
\* first candidate, then the fallback dict literal.
GetEntryContent(entry, html) ==
    LET contents == IF entry.summary_detail # <<>>
                    THEN Append(entry.content, entry.summary_detail)
                    ELSE entry.content
        types == IF html THEN <<"text/html", "text/plain">>
                 ELSE <<"text/plain", "text/html">>
        first == FirstOfType(contents, types[1], 1)
        second == FirstOfType(contents, types[2], 1)
    IN  IF first > 0 THEN contents[first]
        ELSE IF second > 0 THEN contents[second]
        ELSE IF contents # <<>> THEN contents[1]
        ELSE FallbackContent

\* hash(x).hexdigest(): `hash` is the builtin (the module imports no other),
\* it returns an int, and an int has no hexdigest attribute.
HashHexdigest(x) == Raise("AttributeError")

\* Feed._get_entry_id.  The tuple assignment
\*   content_type,content_value = self._get_entry_content(entry)
\* iterates the content dict, so it binds the dict's first two KEYS and
\* raises ValueError unless the dict has exactly two.
GetEntryId(entry, trust, html) ==
    IF trust /\ Truthy(entry.id)
    THEN Ok(entry.id)
    ELSE LET keys == DictKeys(GetEntryContent(entry, html))
         IN  IF Len(keys) # 2 THEN Raise("ValueError")
             ELSE LET content_value == Strip(keys[2])
                  IN  IF content_value # "" THEN HashHexdigest(content_value)
                      ELSE IF Truthy(entry.link) THEN HashHexdigest(entry.link)
                      ELSE IF entry.title_detail THEN HashHexdigest("title")
                      ELSE Ok(NoneVal)

\* Feed._get_entry_title: without a title_detail it reads the attribute
\* `content` of the selected content dict, which has none.
GetEntryTitle(entry, html) ==
    IF entry.title_detail THEN Ok("title") ELSE Raise("AttributeError")

\* Feed._get_entry_tags: the joined terms, or None when there is none.
GetEntryTags(entry) == IF entry.tags THEN "tag1" ELSE NoneVal

\* The OrderedDict of _process_entry before None values are removed.
ExtraHeaders(entry, id, feed_url) ==
    << <<"Date", "date">>,
       <<"Message-ID", "uuid">>,
       <<"User-Agent", "rss2email">>,
       <<"X-RSS-Feed", feed_url>>,
       <<"X-RSS-ID", id>>,
       <<"X-RSS-URL", entry.link>>,
       <<"X-RSS-TAGS", GetEntryTags(entry)>> >>

RECURSIVE DropNone(_)
DropNone(h) ==
    IF h = <<>> THEN <<>>
    ELSE IF Head(h)[2] = NoneVal THEN DropNone(Tail(h))
    ELSE <<Head(h)>> \o DropNone(Tail(h))

\* The loop `for k,v in extra_headers.items(): if v is None: pop(k)` mutates
\* the OrderedDict it iterates.  Popping the last item ends the loop
\* normally.  Popping an item that has a successor is answered by the
\* interpreter's OrderedDict either by going on (the linked-list
\* implementation) or by RuntimeError (the C implementation): both are
\* outcomes.
PopNoneOutcomes(h) ==
    { Ok(DropNone(h)) } \cup
    { [err |-> "RuntimeError", val |-> <<>>] : k \in { j \in 1..(Len(h) - 1) : h[j][2] = NoneVal } }

\* Feed._process_entry_content reads content['type'] before it writes it.
ProcessEntryContent(content, html) ==
    IF ~HasKey(content, "type") THEN Raise("KeyError")
    ELSE Ok(IF html THEN "text/html" ELSE "text/plain")

\* AlreadySeen without the test: no entry is taken for seen.
AlreadySeenNever(seenmap, guid, id) == FALSE

\* The seen test of _process_entry.
AlreadySeen(seenmap, guid, id) ==
    guid \in DOMAIN seenmap /\ seenmap[guid] = id

\* `guid = entry['id'] or id_` of _process_entry, for an entry that has the
\* key 'id'.
EntryGuid(entry, id_) == IF Truthy(entry.id) THEN entry.id ELSE id_

\* Feed._process_entry(parsed, entry) for one outcome `popped` of the header
\* loop: err # "" is the exception raised, val = <<>> is `return` (already
\* seen), any other val is the tuple returned.
ProcessEntryWith(entry, seenmap, trust, html, feed_url, recipient, popped) ==
    LET idr == GetEntryId(entry, trust, html)
    IN  IF idr.err # "" THEN [err |-> idr.err, val |-> <<>>]
        ELSE IF entry.id = NoneVal THEN [err |-> "KeyError", val |-> <<>>]
        ELSE LET id_ == idr.val
                 guid == EntryGuid(entry, id_)
                 subject == GetEntryTitle(entry, html)
                 processed == ProcessEntryContent(GetEntryContent(entry, html), html)
             IN  IF AlreadySeen(seenmap, guid, id_) THEN [err |-> "", val |-> <<>>]
                 ELSE IF subject.err # "" THEN [err |-> subject.err, val |-> <<>>]
                 ELSE IF popped.err # "" THEN [err |-> popped.err, val |-> <<>>]
                 ELSE IF processed.err # "" THEN [err |-> processed.err, val |-> <<>>]
                 ELSE [err |-> "",
                       val |-> << [guid |-> guid, id |-> id_,
                                   message |-> [recipient |-> recipient,
                                                content_type |-> processed.val,
                                                headers |-> popped.val]] >>]

\* The outcomes of the header loop for an entry.
HeaderOutcomes(entry, trust, html, feed_url) ==
    LET idr == GetEntryId(entry, trust, html)
    IN  PopNoneOutcomes(ExtraHeaders(entry, idr.val, feed_url))

\* A string as the sequence of its characters, for the methods that take
\* strings apart.  str.split(sep) for a one-character sep: the pieces
\* between the occurrences of sep, empty pieces included.
RECURSIVE Split(_, _)
Split(s, sep) ==
    IF s = <<>> THEN << <<>> >>
    ELSE LET rest == Split(Tail(s), sep)
         IN  IF Head(s) = sep
             THEN << <<>> >> \o rest
             ELSE << <<Head(s)>> \o rest[1] >> \o Tail(rest)

\* Feed.from_email, the configured sender address.
from_email == << "f", "@", "f" >>

\* _validate_email without the test for an empty part.
ValidateEmailAnyTwoParts(email, default) ==
    IF Len(Split(email, "@")) # 2
    THEN IF default = {} THEN from_email ELSE CHOOSE d \in default : TRUE
    ELSE email

\* Feed._validate_email(email, default): default is {} for None, else the
\* set of the one address given.
ValidateEmail(email, default) ==
    LET parts == Split(email, "@")
    IN  IF Len(parts) # 2 \/ \E k \in 1..Len(parts) : parts[k] = <<>>
        THEN IF default = {} THEN from_email ELSE CHOOSE d \in default : TRUE
        ELSE email

(***************************************************************************)
(* Fetch results (feedparser's parsed feed) of the bounded model           *)
(***************************************************************************)
NoHeaders == [present |-> FALSE, content_type |-> "", content_length |-> ""]

Headers(ct, cl) == [present |-> TRUE, content_type |-> ct, content_length |-> cl]

HeaderPool ==
    { NoHeaders, Headers("application/rss+xml", "1"),
      Headers("text/html", "1"), Headers("application/rss+xml", "0") }

\* Exception classes a bozo_exception is drawn from.  "socket.error(msg)" is
\* an instance of socket.error (OSError) whose args holds fewer than two
\* items, as http.client.RemoteDisconnected('...') does; every class that
\* _check_for_errors tests other than these takes a branch of the same shape
\* as SAXParseException's (log, warned = True).
BozoPool == { NoneVal, "SAXParseException", "KeyboardInterrupt", "socket.error(msg)" }

\* No status attribute, the statuses _check_for_errors names, and 404.
StatusPool ==
    { {}, {HTTP_OK}, {HTTP_MOVED}, {HTTP_FOUND}, {HTTP_NOT_MODIFIED}, {404} }

Parsed(status, headers, version, exc, cursor, entries) ==
    [status |-> status, headers |-> headers, version |-> version,
     bozo_exception |-> exc, url |-> "u2",
     etag |-> cursor.etag, modified |-> cursor.modified, entries |-> entries]

\* Every combination of status, headers, version and parser exception with
\* no entry or one; and the results of status 200 that raise no warning:
\* with a cursor, every entry list up to MaxEntries, and with no cursor, no
\* entry or one.
ParsedResults ==
    { Parsed(st, h, v, x, [etag |-> "t1", modified |-> "m1"], es) :
        st \in StatusPool, h \in HeaderPool, v \in {NoneVal, "rss20"},
        x \in BozoPool, es \in {<<>>, <<EntryA>>} }
    \cup
    { Parsed({HTTP_OK}, Headers("application/rss+xml", "1"), "rss20", NoneVal,
             [etag |-> "t1", modified |-> "m1"], es) :
        es \in SeqsUpTo(EntryPool, MaxEntries) }
    \cup
    { Parsed({HTTP_OK}, Headers("application/rss+xml", "1"), "rss20", NoneVal,
             [etag |-> NoneVal, modified |-> NoneVal], es) :
        es \in SeqsUpTo(EntryPool, 1) }

\* The value of `parsed` before the first fetch.
NoParsed ==
    Parsed({}, NoHeaders, NoneVal, NoneVal, [etag |-> NoneVal, modified |-> NoneVal], <<>>)

\* getattr(parsed, 'status', 200)
StatusOf(p) == IF p.status = {} THEN HTTP_OK ELSE CHOOSE s \in p.status : TRUE

\* StatusAllowed without the test of the status.
StatusAllowedAny(status) == TRUE

\* The statuses _check_for_errors lets pass: 301, which it follows, and
\* those of `elif status not in [200, 302, 304]`.
StatusAllowed(status) ==
    status = HTTP_MOVED \/ status \in {HTTP_OK, HTTP_FOUND, HTTP_NOT_MODIFIED}

\* The warnings of _check_for_errors about the HTTP headers.
HeadersWarned(p) ==
    IF ~p.headers.present THEN TRUE
    ELSE \/ p.headers.content_type \in {"text/html"}
         \/ p.headers.content_length = "0"

\* The warning of _check_for_errors about the feed version.
VersionWarned(p) == ~Truthy(p.version)

\* The exception branches of _check_for_errors that log and go on;
\* "socket.error" is a socket error whose args holds two items or more.
ExceptionWarned(p) ==
    p.bozo_exception \in
        {"socket.timeout", "socket.error", "URLError", "zlib.error", "IOError",
         "AttributeError", "SAXParseException", "Exception"}

Warned(p) == HeadersWarned(p) \/ VersionWarned(p) \/ ExceptionWarned(p)

\* `if status == 301: self.url = parsed['url']`: the feed's url after the
\* status test.
RedirectedUrl(status, p, feed_url) ==
    IF status = HTTP_MOVED THEN p.url ELSE feed_url

\* Feed._check_for_errors(parsed): the exception raised ("" for none) and the
\* feed's url afterwards.  Its last statement, `raise
\* _error.ProcessingError(parsed=parsed, feed=feed)`, names `feed`, which is
\* bound nowhere in the function or the module: evaluating it raises
\* NameError.  The branch for socket errors evaluates `exc.args[1]`, which
\* raises IndexError for an exception with fewer than two args.
CheckForErrors(p, feed_url) ==
    LET status == StatusOf(p)
        new_url == RedirectedUrl(status, p, feed_url)
    IN  IF ~StatusAllowed(status)
        THEN [err |-> "HTTPError", url |-> feed_url]
        ELSE IF p.bozo_exception = "socket.error(msg)"
        THEN [err |-> "IndexError", url |-> new_url]
        ELSE IF p.bozo_exception = "KeyboardInterrupt"
        THEN [err |-> "KeyboardInterrupt", url |-> new_url]
        ELSE IF /\ ~Warned(p)
                /\ status \in {HTTP_OK, HTTP_FOUND}
                /\ p.entries = <<>>
                /\ ~Truthy(p.version)
        THEN [err |-> "NameError", url |-> new_url]
        ELSE [err |-> "", url |-> new_url]

(***************************************************************************)
(* State                                                                   *)
(***************************************************************************)
VARIABLES
    to,          \* Feed.to: the recipient, NoneVal or "" when not configured
    trust_guid,  \* Feed.trust_guid
    html_mail,   \* Feed.html_mail
    url,         \* Feed.url
    etag,        \* Feed.etag
    modified,    \* Feed.modified
    seen,        \* Feed.seen: guid -> id
    pc,          \* where the current call of run() stands
    send,        \* the argument of the current call of run()
    parsed,      \* the result of the current call's _fetch()
    idx,         \* how many entries reversed(parsed.entries) has given, plus one
    cur,         \* the tuple _process has yielded to run(), or <<>>
    error,       \* the exception that ended the call, "" for none
    sent,        \* the _send calls of the current call that returned
    last,        \* what _process_entry did with the entry processed last
    pre,         \* the feed's dynamic state when the current call began
    hist,        \* how the current call relates to the one before it
    arg,         \* the method called on its own, with its arguments
    ret,         \* <<>> until that call returns, then << its result >>
    other        \* a second call of run() on the same feed: its own locals

vars == << to, trust_guid, html_mail, url, etag, modified, seen, pc, send,
           parsed, idx, cur, error, sent, last, pre, hist, arg, ret, other >>

call == << arg, ret, other >>

NoCall == [fn |-> ""]

NoOther ==
    [serial |-> TRUE, pc |-> "idle", parsed |-> NoParsed, idx |-> 0, cur |-> <<>>,
     sent |-> <<>>]

config == << to, trust_guid, html_mail >>

Dynamic == [etag |-> etag, modified |-> modified, seen |-> seen, url |-> url]

NoLast == [pos |-> 0, result |-> ""]

\* prev_ok: the call before completed, with delivery, from an empty seen
\* map; prev_quiet: the call before completed, without delivery;
\* prev_failed: the position of the entry whose send failed in the call
\* before, 0 when none did;
\* prev_entries: the entries it fetched (kept until the next fetch);
\* same: this call fetched the same entries; changed: the positions at which
\* this call's entries differ from them in their content only.
NoHist == [prev_ok |-> FALSE, prev_quiet |-> FALSE, prev_failed |-> 0,
           prev_entries |-> <<>>,
           same |-> FALSE, changed |-> {}]

\* Feed.__init__ and Feed.reset: no cursor, nothing seen.
Init ==
    /\ to \in {NoneVal, "", "a@b.com"}
    /\ trust_guid \in BOOLEAN
    /\ html_mail \in BOOLEAN
    /\ url = "u1"
    /\ etag = NoneVal
    /\ modified = NoneVal
    /\ seen = <<>>
    /\ pc = "idle"
    /\ send = TRUE
    /\ parsed = NoParsed
    /\ idx = 0
    /\ cur = <<>>
    /\ error = ""
    /\ sent = <<>>
    /\ last = NoLast
    /\ pre = Dynamic
    /\ hist = NoHist
    /\ arg = NoCall
    /\ ret = <<>>
    /\ other = NoOther

Ended == pc \in {"done", "failed"}

\* The positions at which the entries of two fetch results differ in their
\* content and in nothing else.
ContentChanged(old, new) ==
    { k \in 1..Len(new) :
        /\ Len(old) = Len(new)
        /\ old[k].content # new[k].content
        /\ [old[k] EXCEPT !.content = <<>>] = [new[k] EXCEPT !.content = <<>>] }

(***************************************************************************)
(* Feed.run(send), one action per step                                     *)
(***************************************************************************)
\* NoRecipient without the test of the recipient.
NoRecipientNever(recipient) == FALSE

\* The test `if not self.to` of run().
NoRecipient(recipient) == ~Truthy(recipient)

\* Reversed without the reversal: the feed's own order.
ReversedNot(entries) == [k \in 1..Len(entries) |-> k]

\* reversed(entries), as the indices of entries in the order it gives them.
Reversed(entries) == [k \in 1..Len(entries) |-> Len(entries) + 1 - k]

\* run() is called; `if not self.to: raise NoToEmailAddress`.
Run(s) ==
    /\ pc = "idle" \/ Ended
    /\ send' = s
    /\ pre' = Dynamic
    /\ hist' = [NoHist EXCEPT !.prev_ok = (pc = "done" /\ pre.seen = <<>> /\ send),
                              !.prev_quiet = (pc = "done" /\ ~send),
                              !.prev_failed = IF pc = "failed" /\ error = "SendError"
                                              THEN last.pos ELSE 0,
                              !.prev_entries = parsed.entries]
    /\ parsed' = NoParsed
    /\ sent' = <<>>
    /\ last' = NoLast
    /\ cur' = <<>>
    /\ idx' = 0
    /\ IF NoRecipient(to)
       THEN pc' = "failed" /\ error' = "NoToEmailAddress"
       ELSE pc' = "fetch" /\ error' = ""
    /\ UNCHANGED << call, config, url, etag, modified, seen >>

\* parsed = self._fetch() returns a result.
Fetch(p) ==
    /\ pc = "fetch"
    /\ parsed' = p
    /\ hist' = [hist EXCEPT !.same = (p.entries = hist.prev_entries),
                            !.changed = ContentChanged(hist.prev_entries, p.entries),
                            !.prev_entries = <<>>]
    /\ pc' = "check"
    /\ UNCHANGED << call, config, url, etag, modified, seen, send, idx, cur, error,
                    sent, last, pre >>

\* _util.TimeLimitedFunction gives up: _fetch raises.
FetchTimeout ==
    /\ pc = "fetch"
    /\ pc' = "failed"
    /\ error' = "TimeoutError"
    /\ UNCHANGED << call, config, url, etag, modified, seen, send, parsed, idx, cur,
                    sent, last, pre, hist >>

\* Classify with the cursor stored as soon as the result is there.
ClassifyStoringCursor ==
    /\ pc = "check"
    /\ LET r == CheckForErrors(parsed, url)
       IN  /\ url' = r.url
           /\ error' = r.err
           /\ IF r.err # ""
              THEN pc' = "failed" /\ idx' = idx
              ELSE pc' = "entries" /\ idx' = 1
    /\ etag' = parsed.etag
    /\ modified' = parsed.modified
    /\ UNCHANGED << call, config, seen, send, parsed, cur, sent, last, pre, hist >>

\* The first next() of the generator _process: _check_for_errors(parsed).
Classify ==
    /\ pc = "check"
    /\ LET r == CheckForErrors(parsed, url)
       IN  /\ url' = r.url
           /\ error' = r.err
           /\ IF r.err # ""
              THEN pc' = "failed" /\ idx' = idx
              ELSE pc' = "entries" /\ idx' = 1
    /\ UNCHANGED << call, config, etag, modified, seen, send, parsed, cur, sent,
                    last, pre, hist >>

\* One turn of `for entry in reversed(parsed.entries)`: _process_entry.
ProcessEntry ==
    /\ pc = "entries"
    /\ idx <= Len(parsed.entries)
    /\ LET pos == Reversed(parsed.entries)[idx]
           entry == parsed.entries[pos]
       IN  \E popped \in HeaderOutcomes(entry, trust_guid, html_mail, url) :
             LET r == ProcessEntryWith(entry, seen, trust_guid, html_mail, url,
                                       to, popped)
             IN  IF r.err # ""
                 THEN /\ pc' = "failed"
                      /\ error' = r.err
                      /\ last' = [pos |-> pos, result |-> "raised"]
                      /\ UNCHANGED << idx, cur >>
                 ELSE IF r.val = <<>>
                 THEN /\ idx' = idx + 1
                      /\ last' = [pos |-> pos, result |-> "skipped"]
                      /\ UNCHANGED << pc, error, cur >>
                 ELSE /\ pc' = "yielded"
                      /\ cur' = r.val
                      /\ last' = [pos |-> pos, result |-> "yielded"]
                      /\ UNCHANGED << idx, error >>
    /\ UNCHANGED << call, config, url, etag, modified, seen, send, parsed, sent,
                    pre, hist >>

\* Record without the assignment.
RecordNothing(seenmap, guid, id) == seenmap

\* Record as dict.setdefault: a key the map holds keeps its value.
RecordIfAbsent(seenmap, guid, id) ==
    [g \in DOMAIN seenmap \cup {guid} |->
        IF g \in DOMAIN seenmap THEN seenmap[g] ELSE id]

\* Record as a rebinding of the whole map to the one pair.
RecordOnly(seenmap, guid, id) == [g \in {guid} |-> id]

\* The seen map after `self.seen[guid] = id_`.
Record(seenmap, guid, id) ==
    [g \in DOMAIN seenmap \cup {guid} |-> IF g = guid THEN id ELSE seenmap[g]]

\* The body of run()'s loop for a yielded tuple: _send if asked to (and it
\* returns), then self.seen[guid] = id_.
SendAndRecord ==
    /\ pc = "yielded"
    /\ LET t == cur[1]
       IN  /\ sent' = IF send
                      THEN Append(sent, [guid |-> t.guid, id |-> t.id, pos |-> last.pos])
                      ELSE sent
           /\ seen' = Record(seen, t.guid, t.id)
    /\ cur' = <<>>
    /\ idx' = idx + 1
    /\ pc' = "entries"
    /\ UNCHANGED << call, config, url, etag, modified, send, parsed, error, last,
                    pre, hist >>

\* The loop body with the assignment ahead of the call of _send.
SeenWhenSendRaisesRecorded(seenmap, guid, id) ==
    [g \in DOMAIN seenmap \cup {guid} |-> IF g = guid THEN id ELSE seenmap[g]]

\* The seen map when `self._send(sender=sender, message=message)` raises:
\* `self.seen[guid] = id_` is the statement after the call, and is not reached.
SeenWhenSendRaises(seenmap, guid, id) == seenmap

\* _email.send raises: the exception leaves run() before the entry is recorded.
SendFails ==
    /\ pc = "yielded"
    /\ send
    /\ seen' = SeenWhenSendRaises(seen, cur[1].guid, cur[1].id)
    /\ pc' = "failed"
    /\ error' = "SendError"
    /\ UNCHANGED << call, config, url, etag, modified, send, parsed, idx, cur,
                    sent, last, pre, hist >>

\* The end of run() storing a cursor only where the result carries one.
FinishKeepingCursor ==
    /\ pc = "entries"
    /\ idx > Len(parsed.entries)
    /\ etag' = IF parsed.etag = NoneVal THEN etag ELSE parsed.etag
    /\ modified' = IF parsed.modified = NoneVal THEN modified ELSE parsed.modified
    /\ pc' = "done"
    /\ UNCHANGED << call, config, url, seen, send, parsed, idx, cur, error, sent,
                    last, pre, hist >>

\* The loop is exhausted: the cursor is taken from the fetch result.
Finish ==
    /\ pc = "entries"
    /\ idx > Len(parsed.entries)
    /\ etag' = parsed.etag
    /\ modified' = parsed.modified
    /\ pc' = "done"
    /\ UNCHANGED << call, config, url, seen, send, parsed, idx, cur, error, sent,
                    last, pre, hist >>

Next ==
    \/ \E s \in BOOLEAN : Run(s)
    \/ \E p \in ParsedResults : Fetch(p)
    \/ FetchTimeout
    \/ Classify
    \/ ProcessEntry
    \/ SendAndRecord
    \/ SendFails
    \/ Finish

Spec == Init /\ [][Next]_vars

(***************************************************************************)
(* A feed restored by __setstate__ from the state an earlier session       *)
(* saved: the seen map holds, for the guid g1, an id that none of the      *)
(* entries resolves to now, and the cursor of that session.                *)
(***************************************************************************)
LoadedState ==
    [etag |-> "t1", modified |-> "m1", seen |-> [g \in {"g1"} |-> "i0"], url |-> "u1"]

InitLoaded ==
    /\ to = "a@b.com"
    /\ trust_guid = TRUE
    /\ html_mail \in BOOLEAN
    /\ url = LoadedState.url
    /\ etag = LoadedState.etag
    /\ modified = LoadedState.modified
    /\ seen = LoadedState.seen
    /\ pc = "idle"
    /\ send = TRUE
    /\ parsed = NoParsed
    /\ idx = 0
    /\ cur = <<>>
    /\ error = ""
    /\ sent = <<>>
    /\ last = NoLast
    /\ pre = Dynamic
    /\ hist = NoHist
    /\ arg = NoCall
    /\ ret = <<>>
    /\ other = NoOther

SpecLoaded == InitLoaded /\ [][Next]_vars

(***************************************************************************)
(* Methods of Feed called on their own.  The feed is configured and has    *)
(* seen nothing; the call and its arguments are drawn from bounded sets,   *)
(* and one action per method applies it.                                   *)
(***************************************************************************)
MaxCandidates == 2

MaxEmailLen == 3

TypePool == { "text/html", "text/plain", "application/xhtml+xml" }

\* The content list of an entry: one content dict per type, its value the
\* position it stands at.
Candidates(types) == [k \in 1..Len(types) |-> Content(types[k], ToString(k))]

\* Entries with up to MaxCandidates content variants and, or not, a summary
\* detail.
ContentEntries ==
    { [Entry("g1", TRUE, "l1", TRUE, Candidates(ts)) EXCEPT !.summary_detail = sd] :
        ts \in SeqsUpTo(TypePool, MaxCandidates),
        sd \in {<<>>} \cup { Content(t, "s") : t \in TypePool } }

\* Entries with and without native id, title_detail, link and tags.
HeaderEntries ==
    { Entry(i, t, l, g, <<Content("text/html", "c1")>>) :
        i \in {"g1", NoneVal}, t \in BOOLEAN, l \in {"l1", NoneVal}, g \in BOOLEAN }

\* Addresses over a letter and the at sign, and an explicit default or none.
EmailPool == SeqsUpTo({"a", "@"}, MaxEmailLen)

DefaultPool == { {}, { << "d", "@", "d" >> } }

\* Entries with and without native id, title and link, whose one content
\* variant has text or only white space.
IdEntries ==
    { Entry(i, t, l, TRUE, <<Content("text/html", v)>>) :
        i \in {"g1", NoneVal}, t \in BOOLEAN, l \in {"l1", NoneVal}, v \in {"c1", " "} }

Calls ==
    { [fn |-> "_get_entry_content", entry |-> e] : e \in ContentEntries }
    \cup { [fn |-> "_get_entry_id", entry |-> e] : e \in IdEntries }
    \cup { [fn |-> "_process_entry", entry |-> e] : e \in HeaderEntries }
    \cup { [fn |-> "_validate_email", email |-> e, default |-> d] :
             e \in EmailPool, d \in DefaultPool }

InitUnit ==
    /\ to = "a@b.com"
    /\ trust_guid \in BOOLEAN
    /\ html_mail \in BOOLEAN
    /\ url = "u1"
    /\ etag = NoneVal
    /\ modified = NoneVal
    /\ seen = <<>>
    /\ pc = "unit"
    /\ send = TRUE
    /\ parsed = NoParsed
    /\ idx = 0
    /\ cur = <<>>
    /\ error = ""
    /\ sent = <<>>
    /\ last = NoLast
    /\ pre = Dynamic
    /\ hist = NoHist
    /\ arg \in Calls
    /\ ret = <<>>
    /\ other = NoOther

Feed == << to, trust_guid, html_mail, url, etag, modified, seen, pc, send,
           parsed, idx, cur, error, sent, last, pre, hist >>

\* self._get_entry_content(entry)
CallGetEntryContent ==
    /\ pc = "unit"
    /\ arg.fn = "_get_entry_content"
    /\ ret = <<>>
    /\ ret' = << GetEntryContent(arg.entry, html_mail) >>
    /\ UNCHANGED << Feed, arg, other >>

\* self._get_entry_id(entry)
CallGetEntryId ==
    /\ pc = "unit"
    /\ arg.fn = "_get_entry_id"
    /\ ret = <<>>
    /\ ret' = << GetEntryId(arg.entry, trust_guid, html_mail) >>
    /\ UNCHANGED << Feed, arg, other >>

\* self._validate_email(email, default)
CallValidateEmail ==
    /\ pc = "unit"
    /\ arg.fn = "_validate_email"
    /\ ret = <<>>
    /\ ret' = << ValidateEmail(arg.email, arg.default) >>
    /\ UNCHANGED << Feed, arg, other >>

\* self._process_entry(parsed, entry), with each outcome of its header loop
CallProcessEntry ==
    /\ pc = "unit"
    /\ arg.fn = "_process_entry"
    /\ ret = <<>>
    /\ \E popped \in HeaderOutcomes(arg.entry, trust_guid, html_mail, url) :
          ret' = << ProcessEntryWith(arg.entry, seen, trust_guid, html_mail,
                                     url, to, popped) >>
    /\ UNCHANGED << Feed, arg, other >>

NextUnit ==
    \/ CallGetEntryContent
    \/ CallGetEntryId
    \/ CallValidateEmail
    \/ CallProcessEntry

SpecUnit == InitUnit /\ [][NextUnit]_vars

(***************************************************************************)
(* Two calls of run() on one Feed object.  run() takes no lock: the feed's *)
(* attributes (seen, url, etag, modified) are shared, each call has its    *)
(* own locals, and the steps of the two calls interleave.  other.serial    *)
(* says that the callers serialize: a call begins only when the other call *)
(* is not under way.  Every fetch returns a result that classifies clean,  *)
(* and every send returns.                                                 *)
(***************************************************************************)
TwoResults ==
    { Parsed({HTTP_OK}, Headers("application/rss+xml", "1"), "rss20", NoneVal,
             [etag |-> "t1", modified |-> "m1"], es) :
        es \in SeqsUpTo({EntryA, EntryB}, MaxEntries) }

InitTwo ==
    /\ to = "a@b.com"
    /\ trust_guid = TRUE
    /\ html_mail = FALSE
    /\ url = "u1"
    /\ etag = NoneVal
    /\ modified = NoneVal
    /\ seen = <<>>
    /\ pc = "idle"
    /\ send = TRUE
    /\ parsed = NoParsed
    /\ idx = 0
    /\ cur = <<>>
    /\ error = ""
    /\ sent = <<>>
    /\ last = NoLast
    /\ pre = Dynamic
    /\ hist = NoHist
    /\ arg = NoCall
    /\ ret = <<>>
    /\ other \in { [NoOther EXCEPT !.serial = b] : b \in BOOLEAN }

OtherEnded == other.pc \in {"idle", "done", "failed"}

\* The first call begins, when the callers let it.
RunFirst(s) ==
    /\ other.serial => OtherEnded
    /\ Run(s)

\* The second call of run(), with delivery, begins, when the callers let it.
RunOther ==
    /\ OtherEnded
    /\ other.serial => (pc = "idle" \/ Ended)
    /\ other' = [other EXCEPT !.pc = IF NoRecipient(to) THEN "failed" ELSE "fetch",
                              !.parsed = NoParsed, !.idx = 0, !.cur = <<>>,
                              !.sent = <<>>]
    /\ UNCHANGED << Feed, arg, ret >>

\* parsed = self._fetch() of the second call.
FetchOther(p) ==
    /\ other.pc = "fetch"
    /\ other' = [other EXCEPT !.pc = "check", !.parsed = p]
    /\ UNCHANGED << Feed, arg, ret >>

\* _check_for_errors of the second call.
ClassifyOther ==
    /\ other.pc = "check"
    /\ LET r == CheckForErrors(other.parsed, url)
       IN  /\ url' = r.url
           /\ other' = IF r.err # ""
                       THEN [other EXCEPT !.pc = "failed"]
                       ELSE [other EXCEPT !.pc = "entries", !.idx = 1]
    /\ UNCHANGED << config, etag, modified, seen, pc, send, parsed, idx, cur,
                    error, sent, last, pre, hist, arg, ret >>

\* _process_entry of the second call: the seen test reads the shared map.
ProcessEntryOther ==
    /\ other.pc = "entries"
    /\ other.idx <= Len(other.parsed.entries)
    /\ LET pos == Reversed(other.parsed.entries)[other.idx]
           entry == other.parsed.entries[pos]
       IN  \E popped \in HeaderOutcomes(entry, trust_guid, html_mail, url) :
             LET r == ProcessEntryWith(entry, seen, trust_guid, html_mail, url,
                                       to, popped)
             IN  other' = IF r.err # "" THEN [other EXCEPT !.pc = "failed"]
                          ELSE IF r.val = <<>>
                          THEN [other EXCEPT !.idx = other.idx + 1]
                          ELSE [other EXCEPT !.pc = "yielded", !.cur = r.val]
    /\ UNCHANGED << Feed, arg, ret >>

\* The loop body of the second call: _send, then self.seen[guid] = id_.
SendAndRecordOther ==
    /\ other.pc = "yielded"
    /\ LET t == other.cur[1]
       IN  /\ seen' = Record(seen, t.guid, t.id)
           /\ other' = [other EXCEPT !.pc = "entries", !.idx = other.idx + 1,
                                     !.cur = <<>>,
                                     !.sent = Append(other.sent,
                                                     [guid |-> t.guid, id |-> t.id])]
    /\ UNCHANGED << config, url, etag, modified, pc, send, parsed, idx, cur,
                    error, sent, last, pre, hist, arg, ret >>

\* The end of the second call: the cursor is taken from its fetch result.
FinishOther ==
    /\ other.pc = "entries"
    /\ other.idx > Len(other.parsed.entries)
    /\ etag' = other.parsed.etag
    /\ modified' = other.parsed.modified
    /\ other' = [other EXCEPT !.pc = "done"]
    /\ UNCHANGED << config, url, seen, pc, send, parsed, idx, cur, error, sent,
                    last, pre, hist, arg, ret >>

NextTwo ==
    \/ \E s \in BOOLEAN : RunFirst(s)
    \/ \E p \in TwoResults : Fetch(p)
    \/ Classify
    \/ ProcessEntry
    \/ SendAndRecord
    \/ Finish
    \/ RunOther
    \/ \E p \in TwoResults : FetchOther(p)
    \/ ClassifyOther
    \/ ProcessEntryOther
    \/ SendAndRecordOther
    \/ FinishOther

SpecTwo == InitTwo /\ [][NextTwo]_vars

(***************************************************************************)
(* Properties                                                              *)
(***************************************************************************)
\* The exceptions of the stages before the entries: the recipient test, the
\* fetch, the classification.
EarlyErrors ==
    {"NoToEmailAddress", "TimeoutError", "HTTPError", "ProcessingError",
     "KeyboardInterrupt", "NameError", "IndexError"}

\* The current call has fetched and classified a result without raising.
Classified ==
    \/ pc \in {"entries", "yielded", "done"}
    \/ pc = "failed" /\ error \notin EarlyErrors

\* The current call has fetched a result and _check_for_errors has run.
Checked ==
    \/ pc \in {"entries", "yielded", "done"}
    \/ pc = "failed" /\ error \notin {"NoToEmailAddress", "TimeoutError"}

\* The current call has ended, after classification, with no _send raising.
EndedAfterEntries == Ended /\ Classified /\ error # "SendError"

SentPositions == { sent[k].pos : k \in 1..Len(sent) }

\* The id and the guid _process_entry resolves for an entry.
IdOf(entry) == GetEntryId(entry, trust_guid, html_mail)

GuidOf(entry) == EntryGuid(entry, IdOf(entry).val)

\* C1: from an empty seen map, a run with delivery whose sends all succeed
\* emits every entry of the fetch result, and a run on the same result right
\* after it emits nothing.
C1_Idempotence ==
    (EndedAfterEntries /\ send) =>
        /\ pre.seen = <<>> => SentPositions = 1..Len(parsed.entries)
        /\ (hist.prev_ok /\ hist.same) => sent = <<>>

\* C2: a pair (guid, id) is emitted only when the seen map does not hold it
\* (it was never recorded, or another id was recorded for the guid since),
\* and an entry that is new when it is processed is emitted: with delivery
\* requested, processing an entry whose pair the seen map does not hold hands
\* a message for it to run().
C2_ExactlyOnce ==
    [][ ( /\ pc = "yielded" /\ send /\ sent' # sent
             => ~AlreadySeen(seen, cur[1].guid, cur[1].id) )
        /\ ( /\ pc = "entries" /\ idx <= Len(parsed.entries) /\ send
             /\ last' # last
             => LET entry == parsed.entries[Reversed(parsed.entries)[idx]]
                IN  ( IdOf(entry).err = ""
                      /\ ~AlreadySeen(seen, GuidOf(entry), IdOf(entry).val) )
                    => pc' = "yielded" ) ]_vars

\* C3: processing an entry skips it exactly when the seen map holds the
\* entry's id under the entry's guid, and in every other case produces a
\* message.
C3_DedupRule ==
    [][ ( pc = "entries" /\ idx <= Len(parsed.entries) /\ last' # last )
        => LET entry == parsed.entries[Reversed(parsed.entries)[idx]]
               known == /\ IdOf(entry).err = ""
                        /\ AlreadySeen(seen, GuidOf(entry), IdOf(entry).val)
           IN  IF known
               THEN last'.result = "skipped" /\ cur' = <<>> /\ pc' = "entries"
               ELSE last'.result = "yielded" /\ cur' # <<>> /\ pc' = "yielded" ]_vars

\* C4: with trust_guid disabled, an entry whose content alone changed since
\* the run before is emitted again.
C4_UpdateDetection ==
    (EndedAfterEntries /\ send /\ ~trust_guid) => hist.changed \subseteq SentPositions

\* C5: within one run, of two emitted entries the one later in the fetch
\* result's list is sent first.
C5_Chronological ==
    \A j, k \in 1..Len(sent) : j < k => sent[j].pos > sent[k].pos

\* C5 witness: from an empty seen map, a result <<newer, older>> has had the
\* older entry sent first and the newer second.
C5_Witness ==
    /\ pc = "done"
    /\ pre.seen = <<>>
    /\ parsed.entries = <<EntryB, EntryA>>
    /\ Len(sent) = 2
    /\ sent[1].pos = 2 /\ sent[1].guid = "g1"
    /\ sent[2].pos = 1 /\ sent[2].guid = "g2"

\* C6: after a run that completes, the keys of the seen map are its keys
\* before the run and the guids of all entries of the fetch result.
C6_SeenKeys ==
    pc = "done" =>
        DOMAIN seen = DOMAIN pre.seen
                      \cup { GuidOf(parsed.entries[k]) : k \in 1..Len(parsed.entries) }

\* C6 witness: a completed run from an empty seen map over two entries with
\* distinct guids has left exactly those two keys.
C6_Witness ==
    /\ pc = "done"
    /\ pre.seen = <<>>
    /\ Len(parsed.entries) = 2
    /\ GuidOf(parsed.entries[1]) # GuidOf(parsed.entries[2])
    /\ DOMAIN seen = {"g1", "g2"}

\* C7: a run of a feed without recipient fails with NoToEmailAddress before
\* any fetch; nothing is processed or sent, and etag, modified, url and the
\* seen map are what they were.
C7_NoRecipient ==
    (to \in {NoneVal, ""} /\ pc # "idle") =>
        /\ pc = "failed"
        /\ error = "NoToEmailAddress"
        /\ parsed = NoParsed
        /\ last = NoLast
        /\ sent = <<>>
        /\ Dynamic = pre

\* C7 witness: such a run has failed.
C7_Witness ==
    to = NoneVal /\ pc = "failed" /\ error = "NoToEmailAddress"

\* C8: a result of status 200 or 302 with no entry and no version, about
\* which no other warning was raised, fails the run with ProcessingError.
C8_EmptyResultFatal ==
    ( /\ Checked
      /\ StatusOf(parsed) \in {HTTP_OK, HTTP_FOUND}
      /\ parsed.entries = <<>>
      /\ ~Truthy(parsed.version)
      /\ ~HeadersWarned(parsed)
      /\ parsed.bozo_exception = NoneVal )
    => (pc = "failed" /\ error = "ProcessingError")

\* C9: a status other than 200, 301, 302, 304 fails the run with HTTPError
\* before any entry is processed, no other result does, and a result without
\* status is treated as one of status 200.
C9_DisallowedStatus ==
    Checked =>
        /\ error = "HTTPError" <=>
              ( parsed.status # {}
                /\ parsed.status \cap
                     {HTTP_OK, HTTP_MOVED, HTTP_FOUND, HTTP_NOT_MODIFIED} = {} )
        /\ error = "HTTPError" =>
              (pc = "failed" /\ last = NoLast /\ sent = <<>> /\ seen = pre.seen)
        /\ parsed.status = {} =>
              /\ CheckForErrors(parsed, pre.url).err
                   = CheckForErrors([parsed EXCEPT !.status = {HTTP_OK}], pre.url).err
              /\ error \in EarlyErrors => error = CheckForErrors(parsed, pre.url).err

\* C9 witness: a 404 has failed the run with HTTPError.
C9_Witness ==
    pc = "failed" /\ error = "HTTPError" /\ parsed.status = {404}

\* C10: when a run fails in the fetch or the classification, no entry has been
\* processed, nothing has been sent, and etag, modified and the seen map are
\* what they were before the run.
C10_AllOrNothing ==
    (pc = "failed" /\ error \in EarlyErrors \ {"NoToEmailAddress"}) =>
        /\ last = NoLast
        /\ sent = <<>>
        /\ etag = pre.etag
        /\ modified = pre.modified
        /\ seen = pre.seen

\* C10 witness: a run of a feed that holds a cursor and seen entries has
\* failed in the classification of a result that carries entries and another
\* cursor.
C10_Witness ==
    /\ pc = "failed"
    /\ error \in {"HTTPError", "KeyboardInterrupt"}
    /\ parsed.entries # <<>>
    /\ parsed.etag # etag
    /\ seen # <<>>


(***************************************************************************)
(* C11: a send failure does not mark the entry seen.  When delivery is     *)
(* requested and the send fails for an entry, the run has failed with that *)
(* entry's pair not in the seen map; and while delivery is requested,      *)
(* every pair the run has written to the seen map is the pair of a message *)
(* whose send returned.                                                    *)
(***************************************************************************)
C11_SendFailure ==
    /\ (pc = "failed" /\ error = "SendError") =>
          /\ cur # <<>>
          /\ ~(/\ cur[1].guid \in DOMAIN seen
               /\ seen[cur[1].guid] = cur[1].id)
    /\ send =>
          \A g \in DOMAIN seen :
             (g \notin DOMAIN pre.seen \/ pre.seen[g] # seen[g]) =>
                \E k \in 1..Len(sent) : sent[k].guid = g /\ sent[k].id = seen[g]

\* A run whose first message was sent and recorded and whose second send
\* failed.
C11_Witness ==
    /\ pc = "failed"
    /\ error = "SendError"
    /\ Len(sent) = 1
    /\ DOMAIN seen = {sent[1].guid}
    /\ cur[1].guid \notin DOMAIN seen

(***************************************************************************)
(* C12: after any run that completes without error the feed's etag and     *)
(* modified values are those of the fetch result, absent where the result  *)
(* carries none, whether or not any entry was new.                         *)
(***************************************************************************)
C12_CursorUpdate ==
    pc = "done" => (etag = parsed.etag /\ modified = parsed.modified)

\* A completed run with entries, none of them new, whose result carries no
\* cursor while the feed held one before.
C12_Witness ==
    /\ pc = "done"
    /\ pre.etag = "t1"
    /\ pre.modified = "m1"
    /\ parsed.etag = NoneVal
    /\ etag = NoneVal
    /\ modified = NoneVal
    /\ parsed.entries # <<>>
    /\ seen = pre.seen

(***************************************************************************)
(* C13: a permanent redirect is not fatal.  With status 301 the feed's url *)
(* is the url the result reports and the run continues to entry            *)
(* processing (a KeyboardInterrupt reported by the parser, which is        *)
(* re-raised as such, set aside); with any other allowed status the url is *)
(* unchanged.                                                              *)
(***************************************************************************)
C13_RedirectContinues ==
    (Checked /\ parsed.bozo_exception # "KeyboardInterrupt") =>
       /\ parsed.status = {HTTP_MOVED} => (url = parsed.url /\ Classified)
       /\ parsed.status \in {{}, {HTTP_OK}, {HTTP_FOUND}, {HTTP_NOT_MODIFIED}} =>
             url = pre.url

(***************************************************************************)
(* C14: the seen map only grows.  No step of any run, completing or        *)
(* failing at any stage, removes a key from the seen map.                  *)
(***************************************************************************)
C14_SeenGrows ==
    [][DOMAIN seen \subseteq DOMAIN seen']_vars

\* A failed run after which the seen map holds the key of an earlier run and
\* the key this run added before it failed.
C14_Witness ==
    /\ pc = "failed"
    /\ Classified
    /\ Cardinality(DOMAIN pre.seen) = 1
    /\ Cardinality(DOMAIN seen) = 2


(***************************************************************************)
(* C15: content preference is a two-level scan.  Of the candidate list     *)
(* (the content variants followed by the summary detail) the first         *)
(* candidate of the preferred type (text/html when HTML mail is on,        *)
(* text/plain otherwise) is selected if there is one; otherwise the first  *)
(* candidate of the other of the two types, if there is one.               *)
(***************************************************************************)
C15_ContentPreference ==
    (arg.fn = "_get_entry_content" /\ ret # <<>>) =>
       LET contents == arg.entry.content \o
                          (IF arg.entry.summary_detail = <<>> THEN <<>>
                           ELSE << arg.entry.summary_detail >>)
           preferred == IF html_mail THEN "text/html" ELSE "text/plain"
           alternate == IF html_mail THEN "text/plain" ELSE "text/html"
           Of(t) == { k \in 1..Len(contents) : contents[k][1][2] = t }
           Least(S) == CHOOSE k \in S : \A j \in S : k <= j
       IN  IF Of(preferred) # {} THEN ret[1] = contents[Least(Of(preferred))]
           ELSE Of(alternate) # {} => ret[1] = contents[Least(Of(alternate))]

\* Candidates [text/plain, text/html] with HTML mail on: the text/html
\* candidate, the second of the list, is selected.
C15_Witness ==
    /\ arg.fn = "_get_entry_content"
    /\ html_mail
    /\ arg.entry.content = << Content("text/plain", "1"), Content("text/html", "2") >>
    /\ arg.entry.summary_detail = <<>>
    /\ ret = << Content("text/html", "2") >>

(***************************************************************************)
(* C16: header omission.  Processing a new entry whose id and title        *)
(* resolve yields a message; its headers are Date, Message-ID, User-Agent, *)
(* X-RSS-Feed and X-RSS-ID, with X-RSS-URL exactly when the entry has a    *)
(* link and X-RSS-TAGS exactly when it has tags: a header whose value is   *)
(* absent is dropped and the entry is still emitted.                       *)
(***************************************************************************)
C16_HeaderOmission ==
    (/\ arg.fn = "_process_entry"
     /\ ret # <<>>
     /\ trust_guid
     /\ arg.entry.id # NoneVal
     /\ arg.entry.title_detail) =>
       /\ ret[1].err = ""
       /\ ret[1].val # <<>>
       /\ LET h == ret[1].val[1].message.headers
          IN  { h[k][1] : k \in 1..Len(h) } =
                 ({"Date", "Message-ID", "User-Agent", "X-RSS-Feed", "X-RSS-ID"}
                    \cup (IF arg.entry.link # NoneVal THEN {"X-RSS-URL"} ELSE {}))
                    \cup (IF arg.entry.tags THEN {"X-RSS-TAGS"} ELSE {})

(***************************************************************************)
(* C17: _validate_email returns the address unchanged exactly when it has  *)
(* one at sign with a non-empty part on each side of it; in every other    *)
(* case it returns the default given, or from_email when none is given.    *)
(***************************************************************************)
C17_ValidateEmail ==
    (arg.fn = "_validate_email" /\ ret # <<>>) =>
       LET email == arg.email
           ats == { k \in 1..Len(email) : email[k] = "@" }
           WellFormed == /\ Cardinality(ats) = 1
                         /\ email[1] # "@"
                         /\ email[Len(email)] # "@"
       IN  /\ (ret[1] = email) <=> WellFormed
           /\ ~WellFormed =>
                 ret[1] = (IF arg.default = {} THEN from_email
                           ELSE CHOOSE d \in arg.default : TRUE)

\* 'a@' with no default given is answered by from_email.
C17_Witness ==
    /\ arg.fn = "_validate_email"
    /\ arg.email = << "a", "@" >>
    /\ arg.default = {}
    /\ ret = << from_email >>


(***************************************************************************)
(* C18: recording is an unconditional single-key overwrite and skipped     *)
(* entries change nothing.  The step that ends the processing of a new     *)
(* entry with guid g and id i (sent, if delivery is requested) leaves      *)
(* seen[g] = i whatever g was mapped to before, adds no other key and      *)
(* changes no other key's value; the step that skips an entry as already   *)
(* seen leaves the seen map as it was.                                     *)
(***************************************************************************)
C18_RecordFrame ==
    [][/\ (pc = "yielded" /\ pc' = "entries") =>
             /\ DOMAIN seen' = DOMAIN seen \cup {cur[1].guid}
             /\ seen'[cur[1].guid] = cur[1].id
             /\ \A g \in DOMAIN seen \ {cur[1].guid} : seen'[g] = seen[g]
       /\ (pc = "entries" /\ last'.result = "skipped" /\ idx' = idx + 1) =>
             seen' = seen
      ]_vars

\* A completed run over a result that holds the entry g1 twice, on a feed that
\* had g1 recorded with another id: the older occurrence was sent and
\* overwrote the value, the newer one was skipped.
C18_Witness ==
    /\ pc = "done"
    /\ pre.seen = [g \in {"g1"} |-> "i0"]
    /\ seen = [g \in {"g1"} |-> "g1"]
    /\ Len(parsed.entries) = 2
    /\ Len(sent) = 1
    /\ last.result = "skipped"


(***************************************************************************)
(* C19: run without delivery.  A run called with delivery not requested    *)
(* sends nothing; when it has ended after classification every entry of    *)
(* the fetch result has its guid/id pair in the seen map and the cursor is *)
(* the result's; and a run with delivery that follows a completed run      *)
(* without delivery on an identical fetch result emits nothing.            *)
(***************************************************************************)
C19_RunWithoutDelivery ==
    /\ ~send => sent = <<>>
    /\ (EndedAfterEntries /\ ~send) =>
          /\ \A k \in 1..Len(parsed.entries) :
                /\ IdOf(parsed.entries[k]).err = ""
                /\ parsed.entries[k].id # NoneVal
                /\ AlreadySeen(seen, GuidOf(parsed.entries[k]),
                               IdOf(parsed.entries[k]).val)
          /\ etag = parsed.etag
          /\ modified = parsed.modified
    /\ (hist.prev_quiet /\ hist.same /\ send) => sent = <<>>


(***************************************************************************)
(* C20: warnings are not fatal.  For a fetch result with an allowed status *)
(* that meets advisory conditions (missing HTTP headers, HTML-looking      *)
(* content-type, zero content-length, unrecognized version, a bozo         *)
(* exception other than KeyboardInterrupt), classification raises nothing, *)
(* and the run, when it has ended with no send failing, has processed      *)
(* every entry of the result and taken the result's cursor.                *)
(***************************************************************************)
C20_WarningsNotFatal ==
    (/\ Checked
     /\ Warned(parsed) \/ parsed.bozo_exception = "socket.error(msg)"
     /\ parsed.status \in {{}, {HTTP_OK}, {HTTP_MOVED}, {HTTP_FOUND}, {HTTP_NOT_MODIFIED}}
     /\ parsed.bozo_exception # "KeyboardInterrupt") =>
       /\ Classified
       /\ (Ended /\ error # "SendError") =>
             /\ pc = "done"
             /\ idx = Len(parsed.entries) + 1
             /\ etag = parsed.etag
             /\ modified = parsed.modified


(***************************************************************************)
(* C21: content selection fallbacks.  When no candidate has type text/html *)
(* or text/plain, the first candidate of the list is selected; when the    *)
(* entry has no content variant and no summary detail, the selection is a  *)
(* content value of type text/plain with the empty string as value, which  *)
(* the renderer accepts like any other content value.                      *)
(***************************************************************************)
C21_ContentFallbacks ==
    (arg.fn = "_get_entry_content" /\ ret # <<>>) =>
       LET contents == arg.entry.content \o
                          (IF arg.entry.summary_detail = <<>> THEN <<>>
                           ELSE << arg.entry.summary_detail >>)
           typed == { k \in 1..Len(contents) :
                        contents[k][1][2] \in {"text/html", "text/plain"} }
       IN  /\ (contents # <<>> /\ typed = {}) => ret[1] = contents[1]
           /\ contents = <<>> =>
                 /\ HasKey(ret[1], "type")
                 /\ HasKey(ret[1], "value")
                 /\ DictGet(ret[1], "type") = "text/plain"
                 /\ DictGet(ret[1], "value") = ""
                 /\ ProcessEntryContent(ret[1], html_mail).err = ""


(***************************************************************************)
(* C22: identity resolution.  With trust_guid on and a native identifier   *)
(* the id is that identifier; otherwise _get_entry_id returns a            *)
(* fingerprint of the first non-empty of the selected content's stripped   *)
(* text, the link and the title, and no id exactly when all three are      *)
(* empty.                                                                  *)
(***************************************************************************)
C22_IdentityResolution ==
    (arg.fn = "_get_entry_id" /\ ret # <<>>) =>
       /\ ret[1].err = ""
       /\ IF trust_guid /\ arg.entry.id # NoneVal
          THEN ret[1].val = arg.entry.id
          ELSE (ret[1].val = NoneVal) <=>
                  /\ arg.entry.content[1][2][2] = " "
                  /\ arg.entry.link = NoneVal
                  /\ ~arg.entry.title_detail


(***************************************************************************)
(* C23: dedup within one run.  When a run with delivery has ended with no  *)
(* send failing, a guid/id pair that the fetch result holds at two         *)
(* positions and the seen map did not hold before the run has been emitted *)
(* exactly once in the run, for the occurrence later in the list (the      *)
(* oldest).                                                                *)
(***************************************************************************)
C23_DedupWithinRun ==
    (EndedAfterEntries /\ send) =>
       \A j, k \in 1..Len(parsed.entries) :
          (/\ j < k
           /\ parsed.entries[j].id # NoneVal
           /\ parsed.entries[k].id # NoneVal
           /\ IdOf(parsed.entries[j]).err = ""
           /\ IdOf(parsed.entries[k]).err = ""
           /\ GuidOf(parsed.entries[j]) = GuidOf(parsed.entries[k])
           /\ IdOf(parsed.entries[j]).val = IdOf(parsed.entries[k]).val
           /\ \A m \in (k + 1)..Len(parsed.entries) :
                 parsed.entries[m] # parsed.entries[k]
           /\ ~(/\ GuidOf(parsed.entries[k]) \in DOMAIN pre.seen
                /\ pre.seen[GuidOf(parsed.entries[k])] = IdOf(parsed.entries[k]).val)) =>
             /\ Cardinality({ n \in 1..Len(sent) :
                                /\ sent[n].guid = GuidOf(parsed.entries[k])
                                /\ sent[n].id = IdOf(parsed.entries[k]).val }) = 1
             /\ \E n \in 1..Len(sent) : sent[n].pos = k
             /\ \A n \in 1..Len(sent) : sent[n].pos # j


(***************************************************************************)
(* C24: state after a send failure.  When the send has failed for an entry *)
(* the run has ended there: the seen map is its pre-run value overwritten  *)
(* with the pairs of exactly the entries sent in this run, the failing     *)
(* entry and the entries newer than it are unsent and unrecorded by this   *)
(* run, and etag and modified are their pre-run values; and a run with     *)
(* delivery that follows on the same fetch result (its entries carrying    *)
(* distinct identifiers) and ends with no send failing has emitted exactly *)
(* the failing entry and the entries newer than it that the seen map did   *)
(* not hold.                                                               *)
(***************************************************************************)
C24_AfterSendFailure ==
    /\ (pc = "failed" /\ error = "SendError") =>
          /\ DOMAIN seen = DOMAIN pre.seen \cup { sent[n].guid : n \in 1..Len(sent) }
          /\ \A n \in 1..Len(sent) : seen[sent[n].guid] = sent[n].id
          /\ \A g \in DOMAIN pre.seen :
                (\A n \in 1..Len(sent) : sent[n].guid # g) => seen[g] = pre.seen[g]
          /\ \A n \in 1..Len(sent) : sent[n].pos > last.pos
          /\ ~(/\ cur[1].guid \in DOMAIN seen
               /\ seen[cur[1].guid] = cur[1].id)
          /\ etag = pre.etag
          /\ modified = pre.modified
    /\ (/\ hist.prev_failed > 0
        /\ hist.same
        /\ send
        /\ EndedAfterEntries
        /\ \A j, k \in 1..Len(parsed.entries) :
              j # k => parsed.entries[j].id # parsed.entries[k].id) =>
          SentPositions =
             { k \in 1..hist.prev_failed :
                 ~(/\ IdOf(parsed.entries[k]).err = ""
                   /\ AlreadySeen(pre.seen, GuidOf(parsed.entries[k]),
                                  IdOf(parsed.entries[k]).val)) }


(***************************************************************************)
(* C25: run() takes no guard on the feed's state.  When the callers        *)
(* serialize the calls of run() on a feed, no guid/id pair is emitted by   *)
(* both calls; when the calls interleave, a state is reachable in which    *)
(* both have emitted the same pair (the witness).                          *)
(***************************************************************************)
C25_SerializedNoDouble ==
    other.serial =>
       ~\E m \in 1..Len(sent), n \in 1..Len(other.sent) :
           sent[m].guid = other.sent[n].guid /\ sent[m].id = other.sent[n].id

\* Interleaved calls: both tested the pair of an entry against the seen map
\* before either recorded it, and both have sent it.
C25_Witness ==
    /\ ~other.serial
    /\ \E m \in 1..Len(sent), n \in 1..Len(other.sent) :
          sent[m].guid = other.sent[n].guid /\ sent[m].id = other.sent[n].id

====
